---- MODULE Spec2Model ----
(***************************************************************************)
(* The card directive of sphinx_design/card.py: CardDirective.run,         *)
(* create_card, split_content, _create_component and                       *)
(* add_card_child_classes.                                                 *)
(*                                                                         *)
(* A line of directive content is a sequence of one-character strings.     *)
(* Python's None is the empty tuple; an optional index i is <<i>>; a       *)
(* region (offset, lines) is the 2-tuple <<offset, lines>>.                *)
(***************************************************************************)
EXTENDS Integers, Sequences, FiniteSets, TLC

VARIABLES content, content_offset, options, pc, region, components,
          card, component, parsed, log, result

vars == <<content, content_offset, options, pc, region, components,
          card, component, parsed, log, result>>

----------------------------------------------------------------------------
(* Bounds of the model *)

MaxLines == 4

MaxCardLines == 3

MaxOffset == 1

MaxNodes == 2

----------------------------------------------------------------------------
(* Python values *)

None == <<>>

Min(a, b) == IF a <= b THEN a ELSE b

(* content[start:stop] for start, stop either None or <<non-negative int>> *)
PySlice(s, start, stop) ==
    LET lo == IF start = None THEN 0 ELSE Min(start[1], Len(s))
        hi == IF stop = None THEN Len(s) ELSE Min(stop[1], Len(s))
    IN  IF lo >= hi THEN <<>> ELSE SubSeq(s, lo + 1, hi)

(* truth value of an Optional[Tuple[...]]: None and () are false *)
Truthy(v) == Len(v) > 0

(* the content check left out *)
HasContent_Always(lines) == TRUE

(* Directive.assert_has_content passes iff self.content is non-empty *)
HasContent(lines) == Len(lines) > 0

----------------------------------------------------------------------------
(* The delimiter patterns *)

Whitespace == {" ", "\t"}

(* re.match of ^c{3,}\s*$ : a run of three or more c, then only whitespace *)
RegexRun(line, c) ==
    \E n \in 3..Len(line) :
        /\ \A k \in 1..n : line[k] = c
        /\ \A k \in (n + 1)..Len(line) : line[k] \in Whitespace

(* the header pattern with {2,} for {3,} *)
REGEX_HEADER_TwoOrMore(line) ==
    \E n \in 2..Len(line) :
        /\ \A k \in 1..n : line[k] = "^"
        /\ \A k \in (n + 1)..Len(line) : line[k] \in Whitespace

REGEX_HEADER(line) == RegexRun(line, "^")

REGEX_FOOTER(line) == RegexRun(line, "+")

----------------------------------------------------------------------------
(* split_content *)

CardContent(body, header, footer) ==
    [body |-> body, header |-> header, footer |-> footer]

(* the loop body without the `header_index is None` test *)
ScanStep_LastHeader(idx, index, line) ==
    LET header_index == IF REGEX_HEADER(line)
                        THEN <<index>> ELSE idx.header_index
        footer_index == IF REGEX_FOOTER(line)
                        THEN <<index>> ELSE idx.footer_index
    IN  [header_index |-> header_index, footer_index |-> footer_index]

(* the loop body looking for a footer only once a header was seen *)
ScanStep_FooterAfterHeader(idx, index, line) ==
    LET header_index == IF idx.header_index = None /\ REGEX_HEADER(line)
                        THEN <<index>> ELSE idx.header_index
        footer_index == IF idx.header_index # None /\ REGEX_FOOTER(line)
                        THEN <<index>> ELSE idx.footer_index
    IN  [header_index |-> header_index, footer_index |-> footer_index]

(* one iteration of the for loop over enumerate(content); index is 0-based *)
ScanStep(idx, index, line) ==
    LET header_index == IF idx.header_index = None /\ REGEX_HEADER(line)
                        THEN <<index>> ELSE idx.header_index
        footer_index == IF REGEX_FOOTER(line)
                        THEN <<index>> ELSE idx.footer_index
    IN  [header_index |-> header_index, footer_index |-> footer_index]

RECURSIVE ScanLoop(_, _, _)
ScanLoop(lines, idx, index) ==
    IF index >= Len(lines) THEN idx
    ELSE ScanLoop(lines, ScanStep(idx, index, lines[index + 1]), index + 1)

Scan(lines) ==
    ScanLoop(lines, [header_index |-> None, footer_index |-> None], 0)

(* split_content with body_offset += header_index *)
split_content_BodyOffsetOffByOne(lines, offset) ==
    LET idx == Scan(lines)
        header_index == idx.header_index
        footer_index == idx.footer_index
        header == IF header_index # None
                  THEN <<offset, PySlice(lines, None, header_index)>>
                  ELSE None
        body_offset == IF header_index # None
                       THEN offset + header_index[1]
                       ELSE offset
        footer == IF footer_index # None
                  THEN <<offset + footer_index[1] + 1,
                         PySlice(lines, <<footer_index[1] + 1>>, None)>>
                  ELSE None
        body == <<body_offset,
                  PySlice(lines,
                          IF header_index # None
                          THEN <<header_index[1] + 1>> ELSE None,
                          footer_index)>>
    IN  CardContent(body, header, footer)

(* split_content with the footer offset offset + footer_index *)
split_content_FooterOffsetOffByOne(lines, offset) ==
    LET idx == Scan(lines)
        header_index == idx.header_index
        footer_index == idx.footer_index
        header == IF header_index # None
                  THEN <<offset, PySlice(lines, None, header_index)>>
                  ELSE None
        body_offset == IF header_index # None
                       THEN offset + header_index[1] + 1
                       ELSE offset
        footer == IF footer_index # None
                  THEN <<offset + footer_index[1],
                         PySlice(lines, <<footer_index[1] + 1>>, None)>>
                  ELSE None
        body == <<body_offset,
                  PySlice(lines,
                          IF header_index # None
                          THEN <<header_index[1] + 1>> ELSE None,
                          footer_index)>>
    IN  CardContent(body, header, footer)

split_content(lines, offset) ==
    LET idx == Scan(lines)
        header_index == idx.header_index
        footer_index == idx.footer_index
        header == IF header_index # None
                  THEN <<offset, PySlice(lines, None, header_index)>>
                  ELSE None
        body_offset == IF header_index # None
                       THEN offset + header_index[1] + 1
                       ELSE offset
        footer == IF footer_index # None
                  THEN <<offset + footer_index[1] + 1,
                         PySlice(lines, <<footer_index[1] + 1>>, None)>>
                  ELSE None
        body == <<body_offset,
                  PySlice(lines,
                          IF header_index # None
                          THEN <<header_index[1] + 1>> ELSE None,
                          footer_index)>>
    IN  CardContent(body, header, footer)

----------------------------------------------------------------------------
(* Inputs *)

LineHeader == <<"^", "^", "^">>
LineHeaderLong == <<"^", "^", "^", "^", " ">>
LineCaretShort == <<"^", "^">>
LineFooter == <<"+", "+", "+">>
LineFooterLong == <<"+", "+", "+", "+", "\t">>
LineFooterIndented == <<" ", "+", "+", "+">>
LineText == <<"a">>

AllLines == {LineHeader, LineHeaderLong, LineCaretShort, LineFooter,
             LineFooterLong, LineFooterIndented, LineText}

SeqsUpTo(S, n) == UNION {[1..k -> S] : k \in 0..n}

Offsets == 0..MaxOffset

CardLines == {LineHeader, LineFooter, LineText}

(* option values as the option_spec converters deliver them *)
OptionValue(name) ==
    CASE name = "width" -> "50"
      [] name = "text-align" -> "center"
      [] name = "img-top" -> "top.png"
      [] name = "img-bottom" -> "bottom.png"
      [] name = "no-shadow" -> None
      [] OTHER -> <<"extra">>

OptionNames == {"img-top", "img-bottom", "width", "class-body"}

OptionMaps == {[n \in S |-> OptionValue(n)] : S \in SUBSET OptionNames}

(* options.get(name, []) *)
OptionGet(opts, name) == IF name \in DOMAIN opts THEN opts[name] ELSE <<>>

----------------------------------------------------------------------------
(* Node trees.  The descendants of a container are a sequence of nodes;    *)
(* parent = 0 is the container itself, parent = j the j-th node.           *)

NodeKinds == {"paragraph", "title", "section"}

ClassAttrs == {[has_classes |-> FALSE, classes |-> <<>>],
               [has_classes |-> TRUE, classes |-> <<>>],
               [has_classes |-> TRUE, classes |-> <<"x">>],
               [has_classes |-> TRUE, classes |-> <<"mui-card-text", "x">>],
               [has_classes |-> TRUE, classes |-> <<"mui-card-title">>]}

MkNode(kind, attr, parent) ==
    [kind |-> kind, has_classes |-> attr.has_classes,
     classes |-> attr.classes, parent |-> parent]

Trees ==
    UNION {{t \in [1..n -> {MkNode(k, a, p) : k \in NodeKinds,
                                              a \in ClassAttrs,
                                              p \in 0..(MaxNodes - 1)}] :
               \A i \in 1..n : t[i].parent < i} : n \in 0..MaxNodes}

(* what the host parser may hand back in the assembly runs *)
NestedParseResults ==
    {<<>>,
     <<MkNode("paragraph", [has_classes |-> TRUE, classes |-> <<>>], 0)>>,
     <<MkNode("section", [has_classes |-> TRUE, classes |-> <<"x">>], 0),
       MkNode("title", [has_classes |-> FALSE, classes |-> <<>>], 1)>>}

(* create_component of .shared: a container node *)
create_component(name, classes) ==
    [tag |-> "container", design_component |-> name,
     classes |-> classes, children |-> <<>>]

image(uri, alt, classes) ==
    [tag |-> "image", uri |-> uri, alt |-> alt, classes |-> classes]

(* node i lies below the container: its parent chain ends at 0 *)
RECURSIVE IsDescendant(_, _)
IsDescendant(tree, i) ==
    IF tree[i].parent = 0 THEN TRUE ELSE IsDescendant(tree, tree[i].parent)

(* a traversal of the direct children only *)
Traverse_DirectChildren(tree, kind) ==
    {i \in 1..Len(tree) : tree[i].kind = kind /\ tree[i].parent = 0}

(* node.traverse(cls): the indices of the descendants of that class *)
Traverse(tree, kind) ==
    {i \in 1..Len(tree) : tree[i].kind = kind /\ IsDescendant(tree, i)}

(* n["classes"] = ([] if "classes" not in n else n["classes"]) + [label] *)
AddClass(n, label) ==
    [n EXCEPT !.has_classes = TRUE,
              !.classes = (IF ~n.has_classes THEN <<>> ELSE n.classes)
                          \o <<label>>]

add_card_child_classes(node) ==
    LET tree == node.children
        paras == Traverse(tree, "paragraph")
        tree1 == [i \in 1..Len(tree) |->
                    IF i \in paras THEN AddClass(tree[i], "mui-card-text")
                    ELSE tree[i]]
        titles == Traverse(tree1, "title")
        tree2 == [i \in 1..Len(tree1) |->
                    IF i \in titles THEN AddClass(tree1[i], "mui-card-title")
                    ELSE tree1[i]]
    IN  [node EXCEPT !.children = tree2]

----------------------------------------------------------------------------
(* The directive run *)

Event(op, name, args) == <<op, name, args>>

(* lines 56-66: the classes of the card root *)
card_classes(opts) ==
    <<"mui-card", "mui-sphinx-override">>
    \o (IF "width" \in DOMAIN opts
        THEN <<"mui-w-" \o opts["width"]>> ELSE <<>>)
    \o (IF "text-align" \in DOMAIN opts
        THEN <<"mui-text-" \o opts["text-align"]>> ELSE <<>>)
    \o (IF "no-shadow" \in DOMAIN opts THEN <<"mui-shadow">> ELSE <<>>)

(* create_card testing the region's lines instead of the region *)
NextRegion_SkipEmpty(after, comps) ==
    CASE after = "split" ->
           IF Truthy(comps.header) /\ Len(comps.header[2]) > 0
           THEN "header" ELSE "body"
      [] after = "header" -> "body"
      [] after = "body" ->
           IF Truthy(comps.footer) /\ Len(comps.footer[2]) > 0
           THEN "footer" ELSE "none"
      [] OTHER -> "none"

(* the region create_card handles after `after` ("split" = the first one) *)
NextRegion(after, comps) ==
    CASE after = "split" -> IF Truthy(comps.header) THEN "header" ELSE "body"
      [] after = "header" -> "body"
      [] after = "body" -> IF Truthy(comps.footer) THEN "footer" ELSE "none"
      [] OTHER -> "none"

(* run: assert_has_content, then create_card up to the split_content call *)
Run ==
    /\ pc = "run"
    /\ IF ~HasContent(content)
       THEN /\ pc' = "error"
            /\ UNCHANGED card
       ELSE /\ pc' = "split"
            /\ LET root == create_component(
                               "card",
                               card_classes(options)
                               \o OptionGet(options, "class-card"))
               IN  card' =
                     IF "img-top" \in DOMAIN options
                     THEN [root EXCEPT !.children =
                             Append(@, image(options["img-top"],
                                             "card-img-top",
                                             <<"mui-card-img-top">>))]
                     ELSE root
    /\ UNCHANGED <<content, content_offset, options, region, components,
                   component, parsed, log, result>>

(* components = cls.split_content(inst.content, inst.content_offset) *)
SplitContent ==
    /\ pc = "split"
    /\ components' = split_content(content, content_offset)
    /\ log' = Append(log, Event("split_content", "card",
                                <<content_offset, content>>))
    /\ region' = NextRegion("split", components')
    /\ pc' = "component"
    /\ UNCHANGED <<content, content_offset, options, card, component,
                   parsed, result>>

(* _create_component up to set_source_info *)
CreateComponent ==
    /\ pc = "component"
    /\ region # "none"
    /\ component' = create_component(
                        "card-" \o region,
                        <<"mui-card-" \o region>>
                        \o OptionGet(options, "class-" \o region))
    /\ pc' = "nested_parse"
    /\ UNCHANGED <<content, content_offset, options, region, components,
                   card, parsed, log, result>>

(* inst.state.nested_parse(content, offset, component): the host parser    *)
(* fills the component with some subtree                                   *)
NestedParseCall(lines, offset) ==
    /\ pc = "nested_parse"
    /\ \E tree \in NestedParseResults :
          /\ component' = [component EXCEPT !.children = tree]
          /\ parsed' = tree
    /\ log' = Append(log, Event("nested_parse", region, <<offset, lines>>))
    /\ pc' = "add_classes"
    /\ UNCHANGED <<content, content_offset, options, region, components,
                   card, result>>

(* nested_parse handed the directive's offset instead of the region's *)
NestedParse_DirectiveOffset ==
    NestedParseCall(components[region][2], content_offset)

(* called from create_card with components.<region>[0] and [1] *)
NestedParse ==
    NestedParseCall(components[region][2], components[region][1])

(* cls.add_card_child_classes(component) *)
AddCardChildClasses ==
    /\ pc = "add_classes"
    /\ component' = add_card_child_classes(component)
    /\ log' = Append(log, Event("add_card_child_classes", region, <<>>))
    /\ pc' = "append"
    /\ UNCHANGED <<content, content_offset, options, region, components,
                   card, parsed, result>>

(* card.append(<the component returned>) *)
AppendComponent ==
    /\ pc = "append"
    /\ card' = [card EXCEPT !.children = Append(@, component)]
    /\ log' = Append(log, Event("append", region, <<>>))
    /\ region' = NextRegion(region, components)
    /\ pc' = "component"
    /\ component' = None
    /\ UNCHANGED <<content, content_offset, options, components, parsed,
                   result>>

(* lines 100-109 and the return of run *)
Finish ==
    /\ pc = "component"
    /\ region = "none"
    /\ card' = IF "img-bottom" \in DOMAIN options
               THEN [card EXCEPT !.children =
                       Append(@, image(options["img-bottom"],
                                       "card-img-bottom",
                                       <<"mui-card-img-bottom">>))]
               ELSE card
    /\ result' = <<card'>>
    /\ pc' = "done"
    /\ UNCHANGED <<content, content_offset, options, region, components,
                   component, parsed, log>>

----------------------------------------------------------------------------
(* Specifications *)

Blank ==
    /\ region = "none"
    /\ components = None
    /\ card = None
    /\ component = None
    /\ parsed = <<>>
    /\ log = <<>>
    /\ result = None

(* one directive run *)
Init ==
    /\ content \in SeqsUpTo(CardLines, MaxCardLines)
    /\ content_offset \in Offsets
    /\ options \in OptionMaps
    /\ pc = "run"
    /\ Blank

Next ==
    \/ Run
    \/ SplitContent
    \/ CreateComponent
    \/ NestedParse
    \/ AddCardChildClasses
    \/ AppendComponent
    \/ Finish

Spec == Init /\ [][Next]_vars

(* split_content applied to every bounded content *)
InitSplit ==
    /\ content \in SeqsUpTo(AllLines, MaxLines)
    /\ content_offset \in Offsets
    /\ options = [n \in {} |-> None]
    /\ pc = "split"
    /\ Blank

NextSplit == SplitContent

SpecSplit == InitSplit /\ [][NextSplit]_vars

(* add_card_child_classes applied to every bounded subtree *)
InitInject ==
    /\ content = <<LineText>>
    /\ content_offset = 0
    /\ options = [n \in {} |-> None]
    /\ pc = "add_classes"
    /\ region = "body"
    /\ components = split_content(content, content_offset)
    /\ card = create_component("card", card_classes(options))
    /\ \E tree \in Trees :
          /\ component = [create_component("card-body", <<"mui-card-body">>)
                            EXCEPT !.children = tree]
          /\ parsed = tree
    /\ log = <<>>
    /\ result = None

NextInject == AddCardChildClasses

SpecInject == InitInject /\ [][NextInject]_vars

----------------------------------------------------------------------------
(* The delimiter syntax as the specification words it: a line that is      *)
(* three or more of the delimiter character followed only by whitespace.   *)

LeadingRun(line, c) ==
    CHOOSE n \in 0..Len(line) :
        /\ \A k \in 1..n : line[k] = c
        /\ n < Len(line) => line[n + 1] # c

IsDelimiterLine(line, c) ==
    /\ LeadingRun(line, c) >= 3
    /\ \A k \in (LeadingRun(line, c) + 1)..Len(line) : line[k] \in {" ", "\t"}

(* 0-based indices of the lines matching each delimiter *)
HeaderMatches == {i \in 0..(Len(content) - 1) : IsDelimiterLine(content[i + 1], "^")}

FooterMatches == {i \in 0..(Len(content) - 1) : IsDelimiterLine(content[i + 1], "+")}

SetMin(S) == CHOOSE x \in S : \A y \in S : x <= y

SetMax(S) == CHOOSE x \in S : \A y \in S : x >= y

FirstHeader == SetMin(HeaderMatches)

LastFooter == SetMax(FooterMatches)

(* lines[a:b] for 0 <= a, b <= len(lines) *)
Slice(lines, a, b) == [k \in 1..(IF b > a THEN b - a ELSE 0) |-> lines[a + k]]

SplitDone == pc \notin {"run", "split", "error"}

(* the 0-based input indices a region claims through its offset *)
RegionIndices(r) ==
    IF r = None THEN {}
    ELSE {(r[1] - content_offset) + k : k \in 0..(Len(r[2]) - 1)}

Reassembled ==
    (IF components.header # None THEN components.header[2] ELSE <<>>)
    \o (IF HeaderMatches # {} THEN <<content[FirstHeader + 1]>> ELSE <<>>)
    \o components.body[2]
    \o (IF FooterMatches # {} THEN <<content[LastFooter + 1]>> ELSE <<>>)
    \o (IF components.footer # None THEN components.footer[2] ELSE <<>>)

(* C1: after split_content, no input line index belongs to two regions,    *)
(* and header lines, header delimiter, body lines, footer delimiter and    *)
(* footer lines concatenated in that order are exactly the input.          *)
C1_PartitionAndReconstruction ==
    SplitDone =>
        /\ RegionIndices(components.header) \cap RegionIndices(components.body) = {}
        /\ RegionIndices(components.body) \cap RegionIndices(components.footer) = {}
        /\ RegionIndices(components.header) \cap RegionIndices(components.footer) = {}
        /\ Reassembled = content

(* C2: with the first header delimiter at i and the last footer delimiter  *)
(* at j, i < j, the result is header = (offset, lines[0:i]),               *)
(* body = (offset+i+1, lines[i+1:j]), footer = (offset+j+1, lines[j+1:]).  *)
C2_HeaderBeforeFooter ==
    (SplitDone /\ HeaderMatches # {} /\ FooterMatches # {}
       /\ FirstHeader < LastFooter) =>
        /\ components.header = <<content_offset, Slice(content, 0, FirstHeader)>>
        /\ components.body =
             <<content_offset + FirstHeader + 1,
               Slice(content, FirstHeader + 1, LastFooter)>>
        /\ components.footer =
             <<content_offset + LastFooter + 1,
               Slice(content, LastFooter + 1, Len(content))>>

(* a later header-pattern line and an earlier footer-pattern line stay     *)
(* inside the body *)
C2_Witness ==
    /\ SplitDone /\ HeaderMatches # {} /\ FooterMatches # {}
    /\ FirstHeader < LastFooter
    /\ \E h \in HeaderMatches : FirstHeader < h /\ h < LastFooter
    /\ \E f \in FooterMatches : FirstHeader < f /\ f < LastFooter
    /\ Len(components.body[2]) = 2

(* C3: with the first header delimiter at i and no footer delimiter, the   *)
(* result is header = (offset, lines[0:i]), body = (offset+i+1,            *)
(* lines[i+1:]) and footer = None.                                         *)
C3_HeaderOnly ==
    (SplitDone /\ HeaderMatches # {} /\ FooterMatches = {}) =>
        /\ components.header = <<content_offset, Slice(content, 0, FirstHeader)>>
        /\ components.body =
             <<content_offset + FirstHeader + 1,
               Slice(content, FirstHeader + 1, Len(content))>>
        /\ components.footer = None

C3_Witness ==
    /\ SplitDone /\ HeaderMatches # {} /\ FooterMatches = {}
    /\ FirstHeader = 1
    /\ Cardinality(HeaderMatches) = 2
    /\ Len(components.body[2]) = 2
    /\ content_offset > 0

(* C4: with no header delimiter and no footer delimiter (the empty input   *)
(* included) the result is header = None, footer = None and                *)
(* body = (offset, lines).                                                 *)
C4_NoDelimiters ==
    (SplitDone /\ HeaderMatches = {} /\ FooterMatches = {}) =>
        /\ components.header = None
        /\ components.footer = None
        /\ components.body = <<content_offset, content>>

(* near misses of both patterns, and nothing else, in the input *)
C4_Witness ==
    /\ SplitDone /\ HeaderMatches = {} /\ FooterMatches = {}
    /\ \E i, j \in 1..Len(content) :
          content[i] = LineCaretShort /\ content[j] = LineFooterIndented
    /\ components.body = <<content_offset, content>>

(* the empty input is split as well *)
C4_WitnessEmpty == SplitDone /\ content = <<>> /\ components.body[2] = <<>>

RegionOffsetCorrect(r) ==
    r # None =>
        \A k \in 0..(Len(r[2]) - 1) :
            /\ (r[1] - content_offset) + k \in 0..(Len(content) - 1)
            /\ r[2][k + 1] = content[(r[1] - content_offset) + k + 1]

(* C8: every line k of every returned region (offset, lines) is the input  *)
(* line at index (offset - content_offset) + k.                            *)
C8_RegionOffsets ==
    SplitDone =>
        /\ RegionOffsetCorrect(components.header)
        /\ RegionOffsetCorrect(components.body)
        /\ RegionOffsetCorrect(components.footer)

(* a header match after the footer match, both regions non-empty *)
C8_Witness ==
    /\ SplitDone /\ HeaderMatches # {} /\ FooterMatches # {}
    /\ LastFooter < FirstHeader
    /\ content_offset > 0
    /\ components.footer # None /\ Len(components.footer[2]) >= 2
    /\ components.header # None /\ Len(components.header[2]) >= 2

(* C9: with the first header delimiter h after the last footer delimiter f *)
(* the result is header = (offset, lines[0:h]), footer = (offset+f+1,      *)
(* lines[f+1:]) and an empty body at offset+h+1.                           *)
C9_HeaderAfterFooter ==
    (SplitDone /\ HeaderMatches # {} /\ FooterMatches # {}
       /\ FirstHeader > LastFooter) =>
        /\ components.header = <<content_offset, Slice(content, 0, FirstHeader)>>
        /\ components.footer =
             <<content_offset + LastFooter + 1,
               Slice(content, LastFooter + 1, Len(content))>>
        /\ components.body = <<content_offset + FirstHeader + 1, <<>>>>

C9_Witness ==
    /\ SplitDone /\ HeaderMatches # {} /\ FooterMatches # {}
    /\ FirstHeader > LastFooter + 1
    /\ LastFooter > 0
    /\ components.body[2] = <<>>

(* C5: a directive with empty content fails in run: split_content and      *)
(* nested_parse are never called, no node is built, nothing is returned.   *)
C5_EmptyContentFails ==
    content = <<>> =>
        /\ pc \in {"run", "error"}
        /\ log = <<>>
        /\ components = None
        /\ card = None
        /\ component = None
        /\ result = None

C5_Witness == content = <<>> /\ pc = "error"

ChildLabel(c) ==
    IF c.tag = "image" THEN <<"image", c.alt>>
    ELSE <<"container", c.design_component>>

ExpectedChildren ==
    (IF "img-top" \in DOMAIN options
     THEN <<<<"image", "card-img-top">>>> ELSE <<>>)
    \o (IF HeaderMatches # {}
        THEN <<<<"container", "card-header">>>> ELSE <<>>)
    \o <<<<"container", "card-body">>>>
    \o (IF FooterMatches # {}
        THEN <<<<"container", "card-footer">>>> ELSE <<>>)
    \o (IF "img-bottom" \in DOMAIN options
        THEN <<<<"image", "card-img-bottom">>>> ELSE <<>>)

(* C6: the children of the returned card are, in order, the top image iff  *)
(* img-top is given, the header container iff a line matched the header    *)
(* delimiter, the body container, the footer container iff a line matched  *)
(* the footer delimiter, the bottom image iff img-bottom is given.         *)
C6_ChildrenOrder ==
    pc = "done" =>
        /\ Len(result) = 1
        /\ [i \in 1..Len(result[1].children) |->
               ChildLabel(result[1].children[i])] = ExpectedChildren

(* header and footer regions with zero lines, both images *)
C6_Witness ==
    /\ pc = "done"
    /\ components.header = <<content_offset, <<>>>>
    /\ components.footer # None /\ components.footer[2] = <<>>
    /\ Len(result[1].children) = 5

OldClasses(n) == IF n.has_classes THEN n.classes ELSE <<>>

(* C7: one run of add_card_child_classes appends one card-text label to    *)
(* every paragraph and one card-title label to every title at any depth,   *)
(* keeps the earlier classes in order, and leaves every other node alone.  *)
C7_ClassInjection ==
    pc = "append" =>
        /\ Len(component.children) = Len(parsed)
        /\ \A i \in 1..Len(parsed) :
              LET old == parsed[i]
                  new == component.children[i]
              IN  /\ new.kind = old.kind
                  /\ new.parent = old.parent
                  /\ old.kind = "paragraph" =>
                        /\ new.has_classes
                        /\ new.classes = OldClasses(old) \o <<"mui-card-text">>
                  /\ old.kind = "title" =>
                        /\ new.has_classes
                        /\ new.classes = OldClasses(old) \o <<"mui-card-title">>
                  /\ old.kind \notin {"paragraph", "title"} => new = old

(* a nested paragraph that already carries the label, below a title that   *)
(* has no class list *)
C7_Witness ==
    /\ pc = "append"
    /\ Len(parsed) = 2
    /\ parsed[1].kind = "title" /\ ~parsed[1].has_classes
    /\ parsed[2].kind = "paragraph" /\ parsed[2].parent = 1
    /\ parsed[2].classes = <<"mui-card-text", "x">>
    /\ component.children[2].classes = <<"mui-card-text", "x", "mui-card-text">>
    /\ component.children[1].classes = <<"mui-card-title">>

RegionEvents(name) ==
    IF components[name] = None THEN <<>>
    ELSE <<Event("nested_parse", name,
                 <<components[name][1], components[name][2]>>),
           Event("add_card_child_classes", name, <<>>),
           Event("append", name, <<>>)>>

ExpectedLog ==
    <<Event("split_content", "card", <<content_offset, content>>)>>
    \o RegionEvents("header") \o RegionEvents("body") \o RegionEvents("footer")

IsPrefix(s, t) == Len(s) <= Len(t) /\ s = SubSeq(t, 1, Len(s))

(* C10: create_card calls split_content once, then for each present region *)
(* in the order header, body, footer: nested_parse with that region's      *)
(* lines and offset, class injection, append to the card; one region is    *)
(* finished before the next one starts.                                    *)
C10_CallOrder ==
    /\ pc \in {"run", "split", "error"} => log = <<>>
    /\ SplitDone => IsPrefix(log, ExpectedLog)
    /\ pc = "done" => log = ExpectedLog

C10_Witness ==
    /\ pc = "done"
    /\ content_offset > 0
    /\ Len(log) = 10
    /\ Len(components.header[2]) > 0

====
